---------------------------- MODULE Spec2Model ----------------------------
(***************************************************************************)
(* Model of examples/gstreamer/main.rs: a GStreamer pipeline fanned out by *)
(* a tee into two glsinkbin/appsink branches, each feeding one Slint       *)
(* VideoWindow.                                                            *)
(*                                                                         *)
(* Threads:                                                                *)
(*   - the main thread, which runs main() and then the UI event loop       *)
(*     (closures queued by upgrade_in_event_loop and the rendering         *)
(*     notifier callbacks run here);                                       *)
(*   - the streaming threads, which decode and call the appsinks'          *)
(*     new_sample callbacks;                                               *)
(*   - the threads posting bus messages, on which the bus sync handler     *)
(*     runs (modelled one invocation at a time).                           *)
(*                                                                         *)
(* Option<T> is modelled as a sequence of length at most one:              *)
(* None is <<>>, Some(x) is <<x>>.                                         *)
(***************************************************************************)
EXTENDS Naturals, Sequences, FiniteSets

\* Bounds of the model.
MaxFrames == 2      \* frames decoded by the source
MaxQueue  == 2      \* closures pending in the UI event loop

\* The two windows / branches (per_window_data1, per_window_data2).
Windows == {1, 2}

None == <<>>
Some(x) == <<x>>

\* Elements that post messages on the bus, with the name of their parent
\* (msg.src().parent()): one child of each glsinkbin, one element whose parent
\* is the pipeline itself, and one object without a parent.
Elements == {"gl1", "gl2", "conv", "top"}

Parent(e) ==
    CASE e = "gl1"  -> Some("glsink1")
      [] e = "gl2"  -> Some("glsink2")
      [] e = "conv" -> Some("pipeline")
      [] OTHER      -> None

\* Context types a NeedContext message can ask for.
GL_DISPLAY_CONTEXT_TYPE == "gst.gl.GLDisplay"
GL_APP_CONTEXT_TYPE == "gst.gl.app_context"
ContextTypes == {GL_DISPLAY_CONTEXT_TYPE, GL_APP_CONTEXT_TYPE, "other"}
MessageViews == {"NeedContext", "Other"}

VARIABLES
    \* main thread
    mainpc,            \* position of main()
    bus_handler,       \* bus sync handler installed
    notifier,          \* [w] rendering notifier installed
    callbacks,         \* [w] appsink new_sample callback installed
    window_shown,      \* [w] show() done
    \* pipeline
    pipeline_state,    \* current state of the pipeline
    target_state,      \* state asked for by the last set_state
    decoded,           \* frames pushed by the tee into both branches
    pulled,            \* [w] frames pulled by appsink w
    teardown_log,      \* events of Player::drop, in order
    \* UI event loop / render callbacks
    event_loop,        \* closures queued by upgrade_in_event_loop (FIFO)
    current_sample,    \* [w] Option<Sample>
    sample_lock,       \* [w] holder of the current_sample mutex
    redraw,            \* [w] redraw requested and not yet drawn
    uipc,              \* position inside a render callback
    uiw,               \* window of the render callback in progress, else 0
    setup_done,        \* [w] RenderingSetup has been delivered
    video_frame,       \* [w] Option<frame> set on MainCameraAdapter
    \* shared GL context
    gst_gl_context,    \* [w] Option<GstGlContext>
    context_lock,      \* [w] holder of the gst_gl_context mutex
    \* bus sync handler (one invocation at a time)
    buspc,             \* position of the handler
    bus_src,           \* Option<element>: source of the last NeedContext
    bus_type,          \* context type of the request being handled
    reply,             \* BusSyncReply of the last invocation
    delivered,         \* Option<[element, type, value]>: what the last
                       \* invocation set on its element (set_context)
    \* history (observations only; never read by the program)
    observed,          \* [w] Option<value seen by the last draw tick>
    cb_since_read,     \* [w] new_sample callback ran since the last tick
    last_applied,      \* [w] Option<sample of the last applied update>
    req_none           \* context was None when the request arrived

mainVars == <<mainpc, bus_handler, notifier, callbacks, window_shown>>
pipeVars == <<pipeline_state, target_state, decoded, pulled, teardown_log>>
uiVars   == <<event_loop, current_sample, sample_lock, redraw, uipc, uiw,
              setup_done, video_frame>>
ctxVars  == <<gst_gl_context, context_lock>>
busVars  == <<buspc, bus_src, bus_type, reply, delivered>>
histVars == <<observed, cb_since_read, last_applied, req_none>>

vars == <<mainVars, pipeVars, uiVars, ctxVars, busVars, histVars>>

Init ==
    /\ mainpc = "windows"
    /\ bus_handler = FALSE
    /\ notifier = [w \in Windows |-> FALSE]
    /\ callbacks = [w \in Windows |-> FALSE]
    /\ window_shown = [w \in Windows |-> FALSE]
    /\ pipeline_state = "Null"
    /\ target_state = "Null"
    /\ decoded = 0
    /\ pulled = [w \in Windows |-> 0]
    /\ teardown_log = <<>>
    /\ event_loop = <<>>
    /\ current_sample = [w \in Windows |-> None]
    /\ sample_lock = [w \in Windows |-> "free"]
    /\ redraw = [w \in Windows |-> FALSE]
    /\ uipc = "idle"
    /\ uiw = 0
    /\ setup_done = [w \in Windows |-> FALSE]
    /\ video_frame = [w \in Windows |-> None]
    /\ gst_gl_context = [w \in Windows |-> None]
    /\ context_lock = [w \in Windows |-> "free"]
    /\ buspc = "idle"
    /\ bus_src = None
    /\ bus_type = "none"
    /\ reply = "none"
    /\ delivered = None
    /\ observed = [w \in Windows |-> None]
    /\ cb_since_read = [w \in Windows |-> FALSE]
    /\ last_applied = [w \in Windows |-> None]
    /\ req_none = FALSE

----------------------------------------------------------------------------
(* main(): the order of the statements of main, up to the event loop. *)

\* Fault variant: playback is started before the appsink callbacks are set.
MainOrder_early ==
    <<"windows", "new", "bus", "notifier1", "notifier2",
      "play", "callback1", "callback2", "show1", "show2", "run">>

MainOrder ==
    <<"windows", "new", "bus", "notifier1", "notifier2",
      "callback1", "callback2", "show1", "show2", "play", "run">>

\* The statement after pc in main; leaving the last one drops the Player.
After(pc) ==
    LET i == CHOOSE k \in 1..Len(MainOrder) : MainOrder[k] = pc
    IN  IF i = Len(MainOrder) THEN "drop" ELSE MainOrder[i + 1]

\* A panic on the main thread once the Player exists: the callback in
\* progress is abandoned and unwinding through main drops the Player.
MainPanics ==
    /\ mainpc' = "drop"
    /\ uipc' = "idle"
    /\ uiw' = 0

\* VideoWindow::new()? twice; an error returns from main before any Player.
CreateWindows(ok) ==
    /\ mainpc = "windows"
    /\ mainpc' = IF ok THEN After("windows") ELSE "exit"
    /\ UNCHANGED <<bus_handler, notifier, callbacks, window_shown>>
    /\ UNCHANGED <<pipeVars, uiVars, ctxVars, busVars, histVars>>

\* The steps of Player::new that can fail with an Err that `?` propagates:
\* gstreamer::init, the creation of each element, add_many and the links of
\* the branches.
CreateSteps ==
    {"init", "uridecodebin3", "capsfilter", "videoconvert", "queue1",
     "queue2", "queue3", "tee", "appsink1", "appsink2", "glsink1", "glsink2"}

LinkSteps ==
    {"capsfilter_queue1", "queue1_tee", "tee_pad1_queue2", "tee_pad2_queue3",
     "queue2_glsink1", "queue3_glsink2"}

\* The steps of Player::new whose failure is unwrapped: request_pad_simple
\* on the tee, the dynamic_cast of an appsink, static_pad, and the link of
\* videoconvert to the capsfilter.
UnwrapSteps ==
    {"tee_request_pad", "appsink_cast", "static_pad",
     "videoconvert_capsfilter"}

ConstructionSteps == CreateSteps \cup {"add_many"} \cup LinkSteps \cup UnwrapSteps

\* Fault variant: the failure of the last link is ignored.
ConstructionResult_ignored(fail) ==
    CASE fail \in {"none", "queue3_glsink2"} -> "Ok"
      [] fail \in UnwrapSteps -> "panic"
      [] OTHER -> "Err"

\* What Player::new does when step `fail` fails ("none": no step fails): Ok
\* with the Player, Err returned by `?`, or a panic of an unwrap.
ConstructionResult(fail) ==
    CASE fail = "none" -> "Ok"
      [] fail \in UnwrapSteps -> "panic"
      [] OTHER -> "Err"

\* Player::new: builds and links the pipeline (left in Null); both mailboxes
\* and both context cells start as None.  A `?` failure returns the error,
\* which main returns in turn; an unwrap failure panics.  Either way the
\* local pipeline is dropped in Null and no Player exists.
PlayerNew(fail) ==
    /\ mainpc = "new"
    /\ mainpc' = CASE ConstructionResult(fail) = "Ok" -> After("new")
                   [] ConstructionResult(fail) = "Err" -> "new_err"
                   [] OTHER -> "new_panic"
    /\ UNCHANGED <<bus_handler, notifier, callbacks, window_shown>>
    /\ UNCHANGED <<pipeVars, uiVars, ctxVars, busVars, histVars>>

\* Player::setup_bus_handler: bus.set_sync_handler(...).
SetupBusHandler ==
    /\ mainpc = "bus"
    /\ bus_handler' = TRUE
    /\ mainpc' = After("bus")
    /\ UNCHANGED <<notifier, callbacks, window_shown>>
    /\ UNCHANGED <<pipeVars, uiVars, ctxVars, busVars, histVars>>

\* PerWindowData::per_window_data_set_rendering_notifier for window w;
\* set_rendering_notifier(..).unwrap() panics when the renderer refuses.
SetRenderingNotifier(w, ok) ==
    /\ mainpc = IF w = 1 THEN "notifier1" ELSE "notifier2"
    /\ IF ok
         THEN /\ notifier' = [notifier EXCEPT ![w] = TRUE]
              /\ mainpc' = After(mainpc)
         ELSE /\ mainpc' = "drop"
              /\ UNCHANGED notifier
    /\ UNCHANGED <<bus_handler, callbacks, window_shown>>
    /\ UNCHANGED <<pipeVars, uiVars, ctxVars, busVars, histVars>>

\* PerWindowData::set_appsink_callback for window w.
SetAppsinkCallback(w) ==
    /\ mainpc = IF w = 1 THEN "callback1" ELSE "callback2"
    /\ callbacks' = [callbacks EXCEPT ![w] = TRUE]
    /\ mainpc' = After(mainpc)
    /\ UNCHANGED <<bus_handler, notifier, window_shown>>
    /\ UNCHANGED <<pipeVars, uiVars, ctxVars, busVars, histVars>>

\* video_window.try_lock().unwrap().show()?; an error returns from main,
\* which drops the Player.
ShowWindow(w, ok) ==
    /\ mainpc = IF w = 1 THEN "show1" ELSE "show2"
    /\ IF ok
         THEN /\ window_shown' = [window_shown EXCEPT ![w] = TRUE]
              /\ mainpc' = After(mainpc)
         ELSE /\ mainpc' = "drop"
              /\ UNCHANGED window_shown
    /\ UNCHANGED <<bus_handler, notifier, callbacks>>
    /\ UNCHANGED <<pipeVars, uiVars, ctxVars, busVars, histVars>>

\* player.pipeline.set_state(State::Playing).unwrap(): asks for Playing; the
\* pipeline then steps through Ready and Paused.  A refused change panics.
SetStatePlaying(ok) ==
    /\ mainpc = "play"
    /\ IF ok
         THEN /\ target_state' = "Playing"
              /\ mainpc' = After("play")
         ELSE /\ mainpc' = "drop"
              /\ UNCHANGED target_state
    /\ UNCHANGED <<bus_handler, notifier, callbacks, window_shown>>
    /\ UNCHANGED <<pipeline_state, decoded, pulled, teardown_log>>
    /\ UNCHANGED <<uiVars, ctxVars, busVars, histVars>>

\* The state after s on the way up to Playing.
StateAbove(s) ==
    CASE s = "Null"   -> "Ready"
      [] s = "Ready"  -> "Paused"
      [] OTHER        -> "Playing"

\* The pipeline performs one step of the state change asked for.
PipelineTransition ==
    /\ target_state = "Playing"
    /\ pipeline_state # "Playing"
    /\ pipeline_state' = StateAbove(pipeline_state)
    /\ UNCHANGED <<target_state, decoded, pulled, teardown_log>>
    /\ UNCHANGED <<mainVars, uiVars, ctxVars, busVars, histVars>>

\* video_window1.run() returns (the event loop quit); main returns and the
\* Player is dropped.
RunReturns ==
    /\ mainpc = "run"
    /\ uipc = "idle"
    /\ mainpc' = "drop"
    /\ UNCHANGED <<bus_handler, notifier, callbacks, window_shown>>
    /\ UNCHANGED <<pipeVars, uiVars, ctxVars, busVars, histVars>>

\* Some buffer decoded for a branch has not been pulled by its appsink.
InFlight == \E w \in Windows : pulled[w] < decoded

\* Drop for Player, first statement: pipeline.send_event(Eos).
DropSendEos ==
    /\ mainpc = "drop"
    /\ teardown_log' = Append(teardown_log, "eos")
    /\ mainpc' = "drop_null"
    /\ UNCHANGED <<bus_handler, notifier, callbacks, window_shown>>
    /\ UNCHANGED <<pipeline_state, target_state, decoded, pulled>>
    /\ UNCHANGED <<uiVars, ctxVars, busVars, histVars>>

\* Drop for Player, second statement: pipeline.set_state(Null).unwrap().
\* Nothing waits for the end-of-stream to reach the sinks: buffers still
\* queued in a branch are discarded by the state change.
DropSetNull ==
    /\ mainpc = "drop_null"
    /\ teardown_log' = Append(teardown_log,
                              IF InFlight THEN "null_undrained" ELSE "null")
    /\ pipeline_state' = "Null"
    /\ target_state' = "Null"
    /\ pulled' = [w \in Windows |-> decoded]
    /\ mainpc' = "exit"
    /\ UNCHANGED decoded
    /\ UNCHANGED <<bus_handler, notifier, callbacks, window_shown>>
    /\ UNCHANGED <<uiVars, ctxVars, busVars, histVars>>

----------------------------------------------------------------------------
(* Streaming threads: the tee and the appsinks' new_sample callbacks. *)

\* The sample appsink w pulls as its n-th one.
Sample(w, n) == <<w, n>>

\* Fault variant: both closures capture the mailbox of window 1.
CurrentSampleRef_shared(w) == 1

\* The mailbox the new_sample closure of window w captured
\* (current_sample_ref = self.current_sample.clone()).
CurrentSampleRef(w) == w

\* The source decodes one more frame; the tee pushes it into both branches.
\* No buffer follows the end-of-stream event.
Decode ==
    /\ pipeline_state = "Playing"
    /\ teardown_log = <<>>
    /\ decoded < MaxFrames
    /\ decoded' = decoded + 1
    /\ UNCHANGED <<pipeline_state, target_state, pulled, teardown_log>>
    /\ UNCHANGED <<mainVars, uiVars, ctxVars, busVars, histVars>>

\* Fault variant: the closure is put at the front of the event loop's queue.
Enqueue_front(queue, closure) == <<closure>> \o queue

\* video_window.upgrade_in_event_loop(closure): the closure is queued behind
\* the closures already waiting on the UI event loop.
Enqueue(queue, closure) == Append(queue, closure)

\* new_sample callback of appsink w (streaming thread): pull_sample, then
\* upgrade_in_event_loop queues the closure that will store the sample.
NewSample(w) ==
    /\ callbacks[w]
    /\ pipeline_state = "Playing"
    /\ pulled[w] < decoded
    /\ Len(event_loop) < MaxQueue
    /\ pulled' = [pulled EXCEPT ![w] = @ + 1]
    /\ event_loop' = Enqueue(event_loop,
                             [ref    |-> CurrentSampleRef(w),
                              sample |-> Sample(w, pulled[w] + 1),
                              window |-> w])
    /\ cb_since_read' = [cb_since_read EXCEPT ![w] = TRUE]
    /\ UNCHANGED <<pipeline_state, target_state, decoded, teardown_log>>
    /\ UNCHANGED <<current_sample, sample_lock, redraw, uipc, uiw, setup_done,
                   video_frame>>
    /\ UNCHANGED <<observed, last_applied, req_none>>
    /\ UNCHANGED <<mainVars, ctxVars, busVars>>

----------------------------------------------------------------------------
(* UI event loop (main thread, inside run()). *)

UiIdle == mainpc = "run" /\ uipc = "idle"

\* The rendering notifier of window w is called with RenderingSetup before
\* it is called with any other state.
RenderingStarted(w) == setup_done[w]

\* Fault variant: a sample already in the mailbox is kept (first wins).
StoreSample_keep(cur, sample) == IF cur = None THEN Some(sample) ELSE cur

\* Fault variant: the store is not one whole-value assignment; the cell is
\* marked Some before the sample's buffer is in place (sequence number 0).
StoreSample_partial(cur, sample) == Some(<<sample[1], 0>>)

\* *current_sample_ref.try_lock().unwrap() = Some(sample)
StoreSample(cur, sample) == Some(sample)

\* Fault variant: the closure stores the sample without asking for a redraw.
RequestRedraw_none(pending, w) == pending

\* app.window().request_redraw()
RequestRedraw(pending, w) == [pending EXCEPT ![w] = TRUE]

\* The closure queued by new_sample runs: it overwrites the mailbox and
\* requests a redraw of its window.
SampleUpdate ==
    /\ UiIdle
    /\ event_loop # <<>>
    /\ LET c == Head(event_loop) IN
        /\ event_loop' = Tail(event_loop)
        /\ IF sample_lock[c.ref] # "free"
             THEN /\ MainPanics
                  /\ UNCHANGED <<current_sample, redraw, last_applied>>
             ELSE /\ current_sample' =
                        [current_sample EXCEPT
                            ![c.ref] = StoreSample(@, c.sample)]
                  /\ redraw' = RequestRedraw(redraw, c.window)
                  /\ last_applied' =
                        [last_applied EXCEPT ![c.ref] = Some(c.sample)]
                  /\ UNCHANGED <<mainpc, uipc, uiw>>
    /\ UNCHANGED <<bus_handler, notifier, callbacks, window_shown>>
    /\ UNCHANGED <<sample_lock, setup_done, video_frame>>
    /\ UNCHANGED <<observed, cb_since_read, req_none>>
    /\ UNCHANGED <<pipeVars, ctxVars, busVars>>

\* GLDisplayEGL::with_egl_display and GLContext::new_wrapped on the render
\* thread of window w: each call creates new objects, distinct from the ones
\* the cell may already hold (cell is the content of the cell at the call).
WrappedContext(w, cell) ==
    LET k == IF cell = None THEN 1 ELSE cell[1].context[3] + 1
    IN  [context |-> <<"context", w, k>>, display |-> <<"display", w, k>>]

GraphicsAPIs == {"NativeOpenGL", "other"}

\* Fault variant: the cell is treated as empty at every setup.
ContextIsNone_always(c) == TRUE

\* Fault variant: the cell is treated as already populated at every setup.
ContextIsNone_never(c) == FALSE

\* context.is_none()
ContextIsNone(c) == c = None

\* RenderingState::RenderingSetup for window w, up to the lock:
\* a graphics API other than NativeOpenGL panics, and so does
\* gst_gl_context.try_lock().unwrap() when the lock is taken.
RenderingSetup(w, api) ==
    /\ UiIdle
    /\ notifier[w] /\ window_shown[w]
    /\ setup_done' = [setup_done EXCEPT ![w] = TRUE]
    /\ IF api # "NativeOpenGL" \/ context_lock[w] # "free"
         THEN /\ MainPanics
              /\ UNCHANGED context_lock
         ELSE /\ context_lock' = [context_lock EXCEPT ![w] = "render"]
              /\ uipc' = "setup_locked"
              /\ uiw' = w
              /\ UNCHANGED mainpc
    /\ UNCHANGED <<bus_handler, notifier, callbacks, window_shown>>
    /\ UNCHANGED <<event_loop, current_sample, sample_lock, redraw,
                   video_frame>>
    /\ UNCHANGED <<gst_gl_context, pipeVars, busVars, histVars>>

\* RenderingSetup, under the lock: when the cell is None, wrap the current
\* native context (new_wrapped, activate, fill_info: each .expect panics on
\* failure, with the lock held) and store it; otherwise leave it alone.
RenderingSetupLocked(gl_ok) ==
    /\ mainpc = "run"
    /\ uipc = "setup_locked"
    /\ IF ContextIsNone(gst_gl_context[uiw])
         THEN IF gl_ok
                THEN /\ gst_gl_context' =
                           [gst_gl_context EXCEPT
                               ![uiw] = Some(WrappedContext(uiw, @))]
                     /\ context_lock' = [context_lock EXCEPT ![uiw] = "free"]
                     /\ uipc' = "idle"
                     /\ uiw' = 0
                     /\ UNCHANGED mainpc
                ELSE /\ MainPanics
                     /\ context_lock' =
                           [context_lock EXCEPT ![uiw] = "poisoned"]
                     /\ UNCHANGED gst_gl_context
         ELSE /\ gl_ok
              /\ context_lock' = [context_lock EXCEPT ![uiw] = "free"]
              /\ uipc' = "idle"
              /\ uiw' = 0
              /\ UNCHANGED <<mainpc, gst_gl_context>>
    /\ UNCHANGED <<bus_handler, notifier, callbacks, window_shown>>
    /\ UNCHANGED <<event_loop, current_sample, sample_lock, redraw,
                   setup_done, video_frame>>
    /\ UNCHANGED <<pipeVars, busVars, histVars>>

\* RenderingState::RenderingTeardown: todo!() panics.
RenderingTeardown(w) ==
    /\ UiIdle
    /\ notifier[w]
    /\ RenderingStarted(w)
    /\ MainPanics
    /\ UNCHANGED <<bus_handler, notifier, callbacks, window_shown>>
    /\ UNCHANGED <<event_loop, current_sample, sample_lock, redraw, setup_done,
                   video_frame>>
    /\ UNCHANGED <<pipeVars, ctxVars, busVars, histVars>>

\* Any other RenderingState (AfterRendering): the `_ => {}` arm.
AfterRendering(w) ==
    /\ UiIdle
    /\ notifier[w]
    /\ RenderingStarted(w)
    /\ UNCHANGED vars

\* Fault variant: the empty mailbox is not detected.
SampleIsNone_never(cur) == FALSE

\* sample_guard.as_ref().is_none()
SampleIsNone(cur) == cur = None

\* Fault variant: the sample is taken out of the mailbox (Option::take).
AfterAsRef_take(cur) == None

\* The mailbox after sample_guard.as_ref(): the sample is borrowed, not
\* taken, so the cell keeps it.
AfterAsRef(cur) == cur

\* RenderingState::BeforeRendering for window w (the draw tick), up to the
\* early return: lock the mailbox and read it; an empty mailbox returns.
BeforeRendering(w) ==
    /\ UiIdle
    /\ notifier[w] /\ window_shown[w]
    /\ RenderingStarted(w)
    /\ redraw' = [redraw EXCEPT ![w] = FALSE]
    /\ IF sample_lock[w] # "free"
         THEN /\ MainPanics
              /\ UNCHANGED <<sample_lock, observed, cb_since_read>>
         ELSE /\ observed' = [observed EXCEPT ![w] = Some(current_sample[w])]
              /\ cb_since_read' = [cb_since_read EXCEPT ![w] = FALSE]
              /\ IF SampleIsNone(current_sample[w])
                   THEN UNCHANGED <<mainpc, uipc, uiw, sample_lock>>
                   ELSE /\ sample_lock' = [sample_lock EXCEPT ![w] = "render"]
                        /\ uipc' = "before_rendering"
                        /\ uiw' = w
                        /\ UNCHANGED mainpc
    /\ UNCHANGED <<bus_handler, notifier, callbacks, window_shown>>
    /\ current_sample' = [current_sample EXCEPT ![w] = AfterAsRef(@)]
    /\ UNCHANGED <<event_loop, setup_done, video_frame>>
    /\ UNCHANGED <<last_applied, req_none>>
    /\ UNCHANGED <<pipeVars, ctxVars, busVars>>

\* BeforeRendering, with the mailbox locked: take the buffer and caps of the
\* sample, map it as a GL frame, read its texture id and set it as the
\* window's video frame.  Every failure (an unwrap of None, an .expect, a zero
\* texture id) panics with the mailbox lock held.
BeforeRenderingFrame(frame_ok) ==
    /\ mainpc = "run"
    /\ uipc = "before_rendering"
    /\ IF current_sample[uiw] # None /\ frame_ok
         THEN /\ video_frame' =
                    [video_frame EXCEPT ![uiw] = Some(current_sample[uiw][1])]
              /\ sample_lock' = [sample_lock EXCEPT ![uiw] = "free"]
              /\ uipc' = "idle"
              /\ uiw' = 0
              /\ UNCHANGED mainpc
         ELSE /\ MainPanics
              /\ sample_lock' = [sample_lock EXCEPT ![uiw] = "poisoned"]
              /\ UNCHANGED video_frame
    /\ UNCHANGED <<bus_handler, notifier, callbacks, window_shown>>
    /\ UNCHANGED <<event_loop, current_sample, redraw, setup_done>>
    /\ UNCHANGED <<pipeVars, ctxVars, busVars, histVars>>

----------------------------------------------------------------------------
(* Bus sync handler (runs on the thread that posts the message). *)

\* Fault variant: an unrecognized parent is answered from window 1.
Dispatch_first(parent_name) ==
    IF parent_name = "glsink2" THEN 2 ELSE 1

\* Fault variant: the two arms are swapped.
Dispatch_swapped(parent_name) ==
    CASE parent_name = "glsink1" -> 2
      [] parent_name = "glsink2" -> 1
      [] OTHER                   -> 0

\* match parent_name.as_str(): the window whose context cell answers, or 0
\* for the `_` arm.
Dispatch(parent_name) ==
    CASE parent_name = "glsink1" -> 1
      [] parent_name = "glsink2" -> 2
      [] OTHER                   -> 0

\* What the handler sets on element e for a request of type t, given the
\* GstGlContext c: the display for a display request, the GL context for an
\* app-context request; nothing for any other type.
Answer(e, t, c) ==
    CASE t = GL_DISPLAY_CONTEXT_TYPE ->
            Some([element |-> e, type |-> t, value |-> c.display])
      [] t = GL_APP_CONTEXT_TYPE ->
            Some([element |-> e, type |-> t, value |-> c.context])
      [] OTHER -> None

\* The handler is called with a message of element e, up to the lock:
\* a message other than NeedContext is passed; a source without a parent
\* panics (unwrap); an unrecognized parent is passed; otherwise the context
\* cell is locked with try_lock().unwrap(), which panics when it is taken.
BusSyncHandler(e, view, t) ==
    /\ bus_handler
    /\ target_state = "Playing"
    /\ buspc = "idle"
    /\ delivered' = None
    /\ IF view # "NeedContext"
         THEN /\ reply' = "Pass"
              /\ bus_src' = None
              /\ UNCHANGED <<buspc, bus_type, context_lock, req_none>>
         ELSE
         /\ bus_src' = Some(e)
         /\ IF Parent(e) = None
              THEN /\ buspc' = "panicked"
                   /\ reply' = "panic"
                   /\ UNCHANGED <<bus_type, context_lock, req_none>>
              ELSE LET w == Dispatch(Parent(e)[1]) IN
                   IF w = 0
                     THEN /\ reply' = "Pass"
                          /\ UNCHANGED <<buspc, bus_type, context_lock,
                                         req_none>>
                     ELSE /\ req_none' = (gst_gl_context[w] = None)
                          /\ bus_type' = t
                          /\ IF context_lock[w] # "free"
                               THEN /\ buspc' = "panicked"
                                    /\ reply' = "panic"
                                    /\ UNCHANGED context_lock
                               ELSE /\ buspc' = "locked"
                                    /\ reply' = "pending"
                                    /\ context_lock' =
                                          [context_lock EXCEPT ![w] = "bus"]
    /\ UNCHANGED <<gst_gl_context, observed, cb_since_read, last_applied>>
    /\ UNCHANGED <<mainVars, pipeVars, uiVars>>

\* The handler, holding the lock of the context cell: None is answered with
\* Drop; otherwise the context asked for is set on the element and the
\* message is passed.  The guard is released on return.
BusSyncHandlerLocked ==
    /\ buspc = "locked"
    /\ LET e == bus_src[1]
           w == Dispatch(Parent(e)[1])
       IN  /\ IF gst_gl_context[w] = None
                THEN /\ reply' = "Drop"
                     /\ UNCHANGED delivered
                ELSE /\ reply' = "Pass"
                     /\ delivered' = Answer(e, bus_type, gst_gl_context[w][1])
           /\ context_lock' = [context_lock EXCEPT ![w] = "free"]
    /\ buspc' = "idle"
    /\ bus_type' = "none"
    /\ req_none' = FALSE
    /\ UNCHANGED <<bus_src, gst_gl_context>>
    /\ UNCHANGED <<observed, cb_since_read, last_applied>>
    /\ UNCHANGED <<mainVars, pipeVars, uiVars>>

----------------------------------------------------------------------------

Next ==
    \/ \E ok \in BOOLEAN : CreateWindows(ok)
    \/ \E fail \in ConstructionSteps \cup {"none"} : PlayerNew(fail)
    \/ SetupBusHandler
    \/ \E w \in Windows, ok \in BOOLEAN : SetRenderingNotifier(w, ok)
    \/ \E w \in Windows : SetAppsinkCallback(w)
    \/ \E w \in Windows, ok \in BOOLEAN : ShowWindow(w, ok)
    \/ \E ok \in BOOLEAN : SetStatePlaying(ok)
    \/ PipelineTransition
    \/ RunReturns
    \/ DropSendEos
    \/ DropSetNull
    \/ Decode
    \/ \E w \in Windows : NewSample(w)
    \/ SampleUpdate
    \/ \E w \in Windows, api \in GraphicsAPIs : RenderingSetup(w, api)
    \/ \E ok \in BOOLEAN : RenderingSetupLocked(ok)
    \/ \E w \in Windows : RenderingTeardown(w)
    \/ \E w \in Windows : AfterRendering(w)
    \/ \E w \in Windows : BeforeRendering(w)
    \/ \E ok \in BOOLEAN : BeforeRenderingFrame(ok)
    \/ \E e \in Elements, view \in MessageViews, t \in ContextTypes :
            BusSyncHandler(e, view, t)
    \/ BusSyncHandlerLocked

Spec == Init /\ [][Next]_vars

\* The event loop serves a requested redraw of window w: the rendering
\* notifier is called with RenderingSetup if the window has not been set up
\* yet, and with BeforeRendering otherwise.
Draw(w) ==
    /\ redraw[w]
    /\ IF RenderingStarted(w)
         THEN BeforeRendering(w)
         ELSE \E api \in GraphicsAPIs : RenderingSetup(w, api)

\* Spec with the scheduling of the UI event loop: a callback that has
\* started runs to its end, and a redraw that keeps being requested while
\* the loop is idle again and again is served.
FairSpec ==
    /\ Spec
    /\ WF_vars(\E ok \in BOOLEAN : RenderingSetupLocked(ok))
    /\ WF_vars(\E ok \in BOOLEAN : BeforeRenderingFrame(ok))
    /\ \A w \in Windows : SF_vars(Draw(w))

----------------------------------------------------------------------------
(* Properties. *)

\* A draw tick of window w reads the mailbox in this step.
TickReads(w) == BeforeRendering(w) /\ sample_lock[w] = "free"

\* C1 (as stated): taking each new_sample callback of a window's appsink as a
\* publish, after one or more callbacks with no draw tick in between, the
\* next draw tick of that window observes the sample pulled last.
C1_CallbackIsPublish ==
    [][\A w \in Windows :
          (TickReads(w) /\ cb_since_read[w])
              => observed'[w] = Some(Some(Sample(w, pulled[w])))]_vars

\* C1 (amended): after one or more queued sample updates have been applied
\* to a window's mailbox by the event loop with no draw tick in between, the
\* next draw tick of that window observes the sample of the last applied
\* update, never an earlier one.
C1_LatestWins ==
    [][\A w \in Windows :
          (TickReads(w) /\ redraw[w])
              => observed'[w] = Some(last_applied[w])]_vars

\* Two updates were applied to mailbox 1 before any tick displayed a frame,
\* and the tick in progress read the second sample.
C1_Witness ==
    /\ observed[1] = Some(Some(Sample(1, 2)))
    /\ video_frame[1] = None
    /\ uipc = "before_rendering" /\ uiw = 1

\* C2: a draw tick on a mailbox that was never written finds no frame and
\* returns normally: no panic, the callback is over, no video frame is set
\* and the mailbox stays empty.
C2_EmptyReadIsNoOp ==
    [][\A w \in Windows :
          (BeforeRendering(w) /\ last_applied[w] = None)
              => /\ observed'[w] = Some(None)
                 /\ mainpc' = "run"
                 /\ uipc' = "idle"
                 /\ video_frame' = video_frame
                 /\ current_sample'[w] = None]_vars

\* A tick of window 2 has read its empty mailbox and the event loop goes on.
C2_Witness ==
    /\ observed[2] = Some(None)
    /\ last_applied[2] = None
    /\ UiIdle

\* C3: a draw tick (both of its steps) leaves every mailbox as it was, and a
\* tick that follows another tick of the same window with no write in
\* between observes the same value.
C3_NonDestructiveRead ==
    [][/\ ((\E w \in Windows : BeforeRendering(w))
            \/ (\E ok \in BOOLEAN : BeforeRenderingFrame(ok)))
          => current_sample' = current_sample
       /\ \A w \in Windows :
            (TickReads(w) /\ observed[w] # None /\ ~redraw[w])
               => observed'[w] = observed[w]]_vars

\* A tick of window 1 has read sample 1 again: the frame it is about to
\* display is the one a previous tick has displayed, still in the mailbox.
C3_Witness ==
    /\ uipc = "before_rendering" /\ uiw = 1
    /\ observed[1] = Some(Some(Sample(1, 1)))
    /\ video_frame[1] = Some(Sample(1, 1))
    /\ current_sample[1] = Some(Sample(1, 1))

\* C4: once a window's context cell is Some, no step changes it: a later
\* RenderingSetup leaves the context and display stored by the first one,
\* and the cell never returns to None.
C4_MaterializeOnce ==
    [][\A w \in Windows :
          gst_gl_context[w] # None
              => gst_gl_context'[w] = gst_gl_context[w]]_vars

\* A second RenderingSetup of window 1 holds the lock of a populated cell.
C4_Witness ==
    /\ uipc = "setup_locked" /\ uiw = 1
    /\ gst_gl_context[1] = Some(WrappedContext(1, None))

\* Elements whose parent is neither glsink1 nor glsink2.
Unrecognized ==
    {e \in Elements :
        Parent(e) # None /\ Parent(e)[1] \notin {"glsink1", "glsink2"}}

\* C5: a NeedContext message from an element whose parent is neither glsink1
\* nor glsink2 is passed in one step: the handler returns Pass without a
\* panic, takes no lock, sets no context on any element and leaves both
\* context cells as they were.
C5_UnrecognizedPassed ==
    [][\A e \in Unrecognized, t \in ContextTypes :
          BusSyncHandler(e, "NeedContext", t)
              => /\ reply' = "Pass"
                 /\ buspc' = "idle"
                 /\ delivered' = None
                 /\ context_lock' = context_lock
                 /\ gst_gl_context' = gst_gl_context]_vars

\* The last NeedContext message came from the element under the pipeline and
\* was passed, while window 1's context was populated.
C5_Witness ==
    /\ bus_src = Some("conv")
    /\ reply = "Pass"
    /\ gst_gl_context[1] # None

\* C6: a NeedContext request of a recognized branch that arrives while the
\* branch's context cell is None does not panic and is answered with Drop,
\* with nothing set on the requesting element.
C6_NotReadyIsDropped ==
    [][/\ req_none' => buspc' # "panicked"
       /\ (buspc = "locked" /\ req_none /\ buspc' = "idle")
             => (reply' = "Drop" /\ delivered' = None)]_vars

\* The window a glsinkbin feeds: glsink1 wraps appsink1 (window 1), glsink2
\* wraps appsink2 (window 2).
WindowOf(e) == IF Parent(e) = Some("glsink1") THEN 1 ELSE 2

C8_NoCrossTalk ==
    \A w \in Windows :
        /\ current_sample[w] # None => current_sample[w][1][1] = w
        /\ (observed[w] # None /\ observed[w][1] # None)
              => observed[w][1][1][1] = w
        /\ video_frame[w] # None => video_frame[w][1][1] = w

\* Both windows display a frame, each the one of its own branch.
C8_Witness ==
    /\ video_frame[1] = Some(Sample(1, 1))
    /\ video_frame[2] = Some(Sample(2, 1))

\* C9: when the Player has been dropped, the teardown was: end-of-stream
\* sent, then the pipeline set to Null with no buffer left in flight.
C9_EosDrainNull ==
    (mainpc = "exit" /\ teardown_log # <<>>)
        => teardown_log = <<"eos", "null">>

\* C10: the pipeline is asked to play, and leaves Null, only after the bus
\* sync handler, both rendering notifiers and both new_sample callbacks are
\* installed.
C10_WiringBeforePlaying ==
    (target_state = "Playing" \/ pipeline_state # "Null")
        => /\ bus_handler
           /\ \A w \in Windows : notifier[w] /\ callbacks[w]

\* The pipeline plays.
C10_Witness == pipeline_state = "Playing"

----------------------------------------------------------------------------
(* C11.  A try_lock on a mailbox lock or on a ConsumerContext lock fails
   only if a thread panicked while holding that lock: every step that
   performs a try_lock (the deferred sample update, the draw tick, the
   rendering setup, the bus sync handler on a request of a recognized sink)
   finds the lock free unless it is poisoned.  It fails: the locks are taken
   with try_lock, which also fails while another live thread merely holds
   the lock. *)
\* Elements whose parent is glsink1 or glsink2.
RecognizedElements ==
    {e \in Elements :
        Parent(e) # None /\ Parent(e)[1] \in {"glsink1", "glsink2"}}

C11_LockFailsOnlyPoisoned ==
    [][ /\ SampleUpdate =>
              sample_lock[Head(event_loop).ref] \in {"free", "poisoned"}
        /\ \A w \in Windows :
              /\ BeforeRendering(w) => sample_lock[w] \in {"free", "poisoned"}
              /\ RenderingSetup(w, "NativeOpenGL") =>
                      context_lock[w] \in {"free", "poisoned"}
        /\ \A e \in RecognizedElements, t \in ContextTypes :
              BusSyncHandler(e, "NeedContext", t) =>
                      context_lock[WindowOf(e)] \in {"free", "poisoned"}
      ]_vars

----------------------------------------------------------------------------
\* The render thread is inside RenderingSetup's GL calls (with_egl_display,
\* new_wrapped, activate, fill_info): the cell was found None.
InSetupGlCalls == uipc = "setup_locked" /\ ContextIsNone(gst_gl_context[uiw])

\* The render thread is inside BeforeRendering's frame extraction
\* (from_buffer_readable, texture_id, set_video_frame).
InFrameGlCalls == uipc = "before_rendering"

\* The bus sync handler is about to call set_context on the posting element:
\* the cell was found populated and the request is one it answers.
InSetContext ==
    /\ buspc = "locked"
    /\ bus_src # None
    /\ gst_gl_context[WindowOf(bus_src[1])] # None
    /\ bus_type \in {GL_DISPLAY_CONTEXT_TYPE, GL_APP_CONTEXT_TYPE}

(* C12.  No lock is held across a GPU or foreign call: in every reachable
   state a thread that is executing the GL calls of the rendering setup or
   the frame extraction of a draw tick, or that is delivering a context to an
   element, holds neither the mailbox lock nor the ConsumerContext lock.  It
   fails: each of the three guards lives to the end of its block. *)
C12_NoLockAcrossCalls ==
    /\ InSetupGlCalls =>
          /\ context_lock[uiw] # "render"
          /\ sample_lock[uiw] # "render"
    /\ InFrameGlCalls =>
          /\ sample_lock[uiw] # "render"
          /\ context_lock[uiw] # "render"
    /\ InSetContext => context_lock[WindowOf(bus_src[1])] # "bus"

----------------------------------------------------------------------------
(* C13.  Frame extraction failure is non-fatal: when the mailbox holds a
   frame whose buffer, caps, GL mapping or texture id cannot be obtained
   (a zero texture id included), the draw tick skips the video content and
   returns normally: the render loop keeps running, the mailbox lock is
   released and the window keeps the frame it showed.  It fails: every
   failure of the extraction is an unwrap or an expect and panics. *)
C13_ExtractionFailureSkips ==
    [][ BeforeRenderingFrame(FALSE) =>
            /\ mainpc' = "run"
            /\ uipc' = "idle"
            /\ sample_lock'[uiw] = "free"
            /\ video_frame' = video_frame
      ]_vars

----------------------------------------------------------------------------
\* A Player exists: Player::new returned Ok and main has not yet dropped it.
PlayerExists ==
    mainpc \notin {"windows", "new", "new_err", "new_panic", "exit"}

(* C14.  Construction failure leaves nothing running: if creating an element
   or linking a branch (capsfilter to queue1, queue1 to tee, the tee pads to
   queue2 and queue3, the queues to glsink1 and glsink2) fails, Player::new
   returns the error, no Player exists, and the pipeline has made and will
   make no state transition out of Null: no bus handler, notifier or
   callback is installed, nothing is decoded and there is no teardown. *)
C14_ConstructionFailure ==
    /\ [][ \A fail \in CreateSteps \cup LinkSteps :
              PlayerNew(fail) => mainpc' = "new_err" ]_vars
    /\ [](mainpc = "new_err" =>
              /\ ~PlayerExists
              /\ pipeline_state = "Null" /\ target_state = "Null"
              /\ ~bus_handler
              /\ \A w \in Windows : ~notifier[w] /\ ~callbacks[w]
              /\ decoded = 0
              /\ teardown_log = <<>>)

C14_Witness ==
    /\ mainpc = "new_err"
    /\ pipeline_state = "Null"

----------------------------------------------------------------------------
(* C15.  No rendering before materialization: no draw tick binds a video
   frame on a window while that window's ConsumerContext is None, so a
   window that shows a frame has a populated ConsumerContext: the None to
   Some transition precedes the first frame exposed on that window. *)
C15_NoFrameBeforeContext ==
    /\ [][ \A w \in Windows :
              video_frame'[w] # video_frame[w] => gst_gl_context[w] # None
         ]_vars
    /\ [](\A w \in Windows :
              video_frame[w] # None => gst_gl_context[w] # None)

C15_Witness ==
    /\ video_frame[2] # None
    /\ gst_gl_context[2] = Some(WrappedContext(2, None))
    /\ gst_gl_context[1] = None

----------------------------------------------------------------------------
(* C16.  Create-once-then-read-only sharing: a ConsumerContext changes only
   in the rendering setup of its own window on the render thread, and only
   from None to Some; the bus sync handler changes no ConsumerContext on
   any of its paths (unrecognized parent, not ready, display request,
   app-context request). *)
C16_OnlySetupWrites ==
    [][ \A w \in Windows :
          gst_gl_context'[w] # gst_gl_context[w] =>
              /\ \E ok \in BOOLEAN : RenderingSetupLocked(ok)
              /\ uiw = w
              /\ context_lock[w] = "render"
              /\ gst_gl_context[w] = None
              /\ gst_gl_context'[w] # None
              /\ ~BusSyncHandlerLocked
              /\ ~\E e \in Elements, view \in MessageViews,
                      t \in ContextTypes : BusSyncHandler(e, view, t)
      ]_vars

\* The handler has answered a request from a populated cell, and the cell
\* still holds what its first rendering setup stored.
C16_Witness ==
    /\ reply = "Pass"
    /\ delivered # None
    /\ bus_src = Some("gl2")
    /\ gst_gl_context[2] = Some(WrappedContext(2, None))

----------------------------------------------------------------------------
\* A step of the rendering notifier of some window, in any rendering state.
RenderCallbackStep ==
    \/ \E w \in Windows, api \in GraphicsAPIs : RenderingSetup(w, api)
    \/ \E ok \in BOOLEAN : RenderingSetupLocked(ok)
    \/ \E w \in Windows : BeforeRendering(w)
    \/ \E ok \in BOOLEAN : BeforeRenderingFrame(ok)
    \/ \E w \in Windows : RenderingTeardown(w)
    \/ \E w \in Windows : AfterRendering(w)

(* C17.  The render callback never aborts the render loop: for every
   rendering state (RenderingSetup, BeforeRendering, RenderingTeardown, any
   other) the callback returns normally, so the event loop is still running
   after every step of the callback.  It fails: the RenderingTeardown arm is
   todo!(), and the setup and the draw tick unwrap their failures. *)
C17_CallbackNeverAborts ==
    [][ RenderCallbackStep => mainpc' = "run" ]_vars

----------------------------------------------------------------------------
\* The frames that deferred updates have stored into mailbox w so far.
PublishedTo(w) ==
    IF last_applied[w] = None
      THEN {}
      ELSE {Sample(last_applied[w][1][1], n) : n \in 1..last_applied[w][1][2]}

(* C18.  No torn frame: every value a draw tick has read from a mailbox,
   the last read before the teardown (EOS, then Null) included, is either
   empty or one complete frame that was stored into that mailbox before. *)
C18_NoTornFrame ==
    \A w \in Windows :
        observed[w] # None =>
            \/ observed[w][1] = None
            \/ observed[w][1][1] \in PublishedTo(w)

\* The pipeline was torn down after a tick of window 1 read the second frame.
C18_Witness ==
    /\ mainpc = "exit"
    /\ teardown_log # <<>>
    /\ observed[1] = Some(Some(Sample(1, 2)))
    /\ observed[2] = Some(None)

----------------------------------------------------------------------------
\* The sequence number of the frame a tick of window w read last (0: no
\* tick yet, or an empty mailbox).
Seen(w) ==
    IF observed[w] = None \/ observed[w][1] = None
      THEN 0
      ELSE observed[w][1][1][2]

(* C19.  The frames observed by one window never go backwards: the deferred
   updates are applied in the order their samples were pulled, so the frame
   stored into a mailbox and the frame the successive draw ticks of a window
   read are non-decreasing in publish order. *)
C19_ObservedMonotone ==
    [][ \A w \in Windows :
          /\ Seen(w)' >= Seen(w)
          /\ (last_applied[w] # None /\ last_applied'[w] # last_applied[w]) =>
                last_applied'[w][1][2] > last_applied[w][1][2]
      ]_vars

\* Window 1 has read the first frame and then the second.
C19_Witness ==
    /\ Seen(1) = 2
    /\ video_frame[1] = Some(Sample(1, 1))

----------------------------------------------------------------------------
\* The window whose context cell the handler in flight has locked (0: none).
BusWindow ==
    IF buspc = "locked" /\ bus_src # None THEN WindowOf(bus_src[1]) ELSE 0

\* The frame stored last into mailbox w has not been read by a tick of
\* window w, nor has a later one.
Unseen(w) == last_applied[w] # None /\ Seen(w) < last_applied[w][1][2]

(* C20.  Publish leads to display: every sample stored into a window's
   mailbox comes with a redraw request for that window, and, under fair
   scheduling of the event loop, every stored frame is eventually followed
   by a draw tick of that window that reads that frame or a later one (or
   the event loop has ended).  And once a window's ConsumerContext is
   populated, a need-context request from that window's branch is no
   longer answered with Drop. *)
C20_PublishLeadsToDisplay ==
    /\ [][ /\ \A w \in Windows :
                last_applied'[w] # last_applied[w] => redraw'[w]
           /\ \A w \in Windows :
                (BusSyncHandlerLocked /\ BusWindow = w
                    /\ gst_gl_context[w] # None) => reply' = "Pass"
           /\ \A e \in RecognizedElements, t \in ContextTypes :
                (BusSyncHandler(e, "NeedContext", t)
                    /\ gst_gl_context[WindowOf(e)] # None) => reply' # "Drop"
         ]_vars
    /\ \A w \in Windows :
          Unseen(w) ~> (~Unseen(w) \/ mainpc # "run")

\* A tick of window 1 has read the second frame stored into its mailbox and
\* the event loop is still running; window 2's cell is populated and a
\* request of its branch has been answered.
C20_Witness ==
    /\ mainpc = "run"
    /\ last_applied[1] = Some(Sample(1, 2))
    /\ Seen(1) = 2
    /\ gst_gl_context[2] # None
    /\ bus_src = Some("gl2") /\ reply = "Pass" /\ ~req_none

============================================================================
